---- MODULE Spec2Model ----
(***************************************************************************)
(* Voter model on a graph: Voter (belief, inbox, update rules), VoterModel  *)
(* (initialize, update under the discrete and the exponential clock) and    *)
(* the metrics of vm_change.py (track_changes, convergence_time).           *)
(*                                                                          *)
(* Python floats are modelled as exact rationals <<numerator, denominator>> *)
(* in lowest terms with a positive denominator; a random draw is a          *)
(* nondeterministic choice among the outcomes of nonzero probability.       *)
(***************************************************************************)
EXTENDS Integers, Sequences, FiniteSets, TLC

VARIABLES
    graph,        \* VoterModel.graph: [n, edges]
    voting,       \* VoterModel.voting
    clock,        \* VoterModel.clock
    voters,       \* VoterModel._voters, a 0-indexed list of Voter records
    init_method,  \* VoterModel.init_method
    ret,          \* the value the last completed update() returned
    raised,       \* the exception the last call ended with, or "none"
    flux_arr,     \* the caller's metrics lists handed to track_changes
    belief_arr,
    time_arr,
    nsteps,       \* update() calls made so far
    last,         \* history: the last call, the voters before it, its draws
    rounds        \* history: per recorded row, the tracked list and snapshot

vars == <<graph, voting, clock, voters, init_method, ret, raised,
          flux_arr, belief_arr, time_arr, nsteps, last, rounds>>

-----------------------------------------------------------------------------
(* Bounds of the model *)

\* step() calls explored after construction
MaxSteps == 2
\* track_changes() rows explored
MaxHistory == 2
\* update() calls explored on stand-alone Voters (VoterSpec)
MaxUpdates == 1
\* votes a stand-alone Voter's inbox may hold (VoterSpec)
MaxVotes == 2

-----------------------------------------------------------------------------
(* Exact rational arithmetic standing in for Python floats *)

RECURSIVE GCD(_, _)
GCD(a, b) == IF b = 0 THEN a ELSE GCD(b, a % b)

Abs(x) == IF x < 0 THEN -x ELSE x

Rat(n, d) == LET g == GCD(Abs(n), d) IN <<n \div g, d \div g>>

Zero == Rat(0, 1)

One == Rat(1, 1)

Half == Rat(1, 2)

RAdd(a, b) == Rat(a[1] * b[2] + b[1] * a[2], a[2] * b[2])

RSub(a, b) == Rat(a[1] * b[2] - b[1] * a[2], a[2] * b[2])

RDivInt(a, k) == Rat(a[1], a[2] * k)

RLess(a, b) == a[1] * b[2] < b[1] * a[2]

RLeq(a, b) == a[1] * b[2] <= b[1] * a[2]

\* Python max(a, b)
RMax(a, b) == IF RLess(a, b) THEN b ELSE a

RECURSIVE RSum(_)
RSum(s) == IF s = <<>> THEN Zero ELSE RAdd(Head(s), RSum(Tail(s)))

RECURSIVE SumSeq(_)
SumSeq(s) == IF s = <<>> THEN 0 ELSE Head(s) + SumSeq(Tail(s))

InSeq(s, x) == \E i \in 1..Len(s) : s[i] = x

Range(s) == {s[i] : i \in 1..Len(s)}

\* a Python list as a 0-indexed function
FromSeq(s) == [i \in 0..(Len(s) - 1) |-> s[i + 1]]

PyLen(f) == Cardinality(DOMAIN f)

-----------------------------------------------------------------------------
(* class Voter *)

voting_methods == {"simple", "probability", "weighted_prob", "single_neighbor"}

\* Voter.__init__
Voter(degree, belief, paccept) ==
    [degree |-> degree, belief |-> belief, paccept |-> paccept, votes |-> <<>>]

\* Voter.exchange_votes: vs[a].exchange_votes(vs[b])
exchange_votes_oneway(vs, a, b) ==
    [vs EXCEPT ![a].votes = Append(@, vs[b].belief)]

exchange_votes(vs, a, b) ==
    LET v1 == [vs EXCEPT ![a].votes = Append(@, vs[b].belief)]
    IN  [v1 EXCEPT ![b].votes = Append(@, v1[a].belief)]

push_vote_back(vs, a, b) == [vs EXCEPT ![a].votes = Append(@, vs[b].belief)]

\* Voter.push_vote: vs[a].push_vote(vs[b])
push_vote(vs, a, b) == [vs EXCEPT ![b].votes = Append(@, vs[a].belief)]

\* keys of cnts / wgts in insertion order: own belief first, then the votes
RECURSIVE KeysFrom(_, _, _)
KeysFrom(keys, votes, i) ==
    IF i > Len(votes) THEN keys
    ELSE LET b == votes[i][1]
         IN  KeysFrom(IF b = 0 \/ InSeq(keys, b) THEN keys ELSE Append(keys, b),
                      votes, i + 1)

Keys(v) ==
    KeysFrom(IF v.belief[1] # 0 THEN <<v.belief[1]>> ELSE <<>>, v.votes, 1)

\* cnts[b] after the tally loop
cnts(v, b) ==
    (IF v.belief[1] # 0 /\ v.belief[1] = b THEN 1 ELSE 0)
    + Cardinality({i \in 1..Len(v.votes) : v.votes[i][1] # 0 /\ v.votes[i][1] = b})

RECURSIVE VoteWeight(_, _, _)
VoteWeight(votes, b, i) ==
    IF i > Len(votes) THEN Zero
    ELSE RAdd(IF votes[i][1] # 0 /\ votes[i][1] = b THEN votes[i][2] ELSE Zero,
              VoteWeight(votes, b, i + 1))

\* wgts[b] after the tally loop
wgts(v, b) ==
    RAdd(IF v.belief[1] # 0 /\ v.belief[1] = b THEN v.belief[2] ELSE Zero,
         VoteWeight(v.votes, b, 1))

-----------------------------------------------------------------------------
(* Voter.update *)

\* the test of the majority loop: does belief b with count c replace b_new?
Overrides_strict(c, cnt_max, b, own) == c > cnt_max

Overrides(c, cnt_max, b, own) == c > cnt_max \/ (c = cnt_max /\ b # own)

\* the loop "for b in cnts" of the simple rule; yields b_new
RECURSIVE SimpleScan(_, _, _, _, _)
SimpleScan(v, keys, i, b_new, cnt_max) ==
    IF i > Len(keys) THEN b_new
    ELSE LET b == keys[i]
             c == cnts(v, b)
         IN  IF Overrides(c, cnt_max, b, v.belief[1])
             THEN SimpleScan(v, keys, i + 1, b, c)
             ELSE SimpleScan(v, keys, i + 1, b_new, cnt_max)

SimpleWinner(v) == SimpleScan(v, Keys(v), 1, v.belief[1], 0)

\* np.random.rand() < paccept, rand() uniform on [0, 1)
AcceptDraws(paccept) ==
    {a \in BOOLEAN : IF a THEN RLess(Zero, paccept) ELSE RLess(paccept, One)}

\* np.random.choice(list, p = probs) raises ValueError unless p is a distribution
ProbsValid(probs) ==
    /\ \A i \in 1..Len(probs) : RLeq(Zero, probs[i])
    /\ RSum(probs) = One

\* the values np.random.choice(list, p = probs) can return
ChoiceDraws(list, probs) ==
    {list[i] : i \in {j \in 1..Len(list) : RLess(Zero, probs[j])}}

BeliefList_zero(v) == Append(Keys(v), 0)

\* belief_list + [-1]
BeliefList(v) == Append(Keys(v), -1)

\* belief_probs of the probability rule, the residual last
ProbabilityProbs(v) ==
    LET keys == Keys(v)
        ps == [i \in 1..Len(keys) |-> Rat(cnts(v, keys[i]), v.degree + 1)]
    IN  Append(ps, RSub(One, RSum(ps)))

\* the divisor of the weighted probabilities
WeightedDivisor_degree(v) == v.degree

WeightedDivisor(v) == v.degree + 1

\* belief_probs of the weighted rule: residual last, negatives clamped to 0
WeightedProbs(v) ==
    LET keys == Keys(v)
        ps == [i \in 1..Len(keys) |-> RDivInt(wgts(v, keys[i]), WeightedDivisor(v))]
        all == Append(ps, RSub(One, RSum(ps)))
    IN  [i \in 1..Len(all) |-> IF RLeq(Zero, all[i]) THEN all[i] ELSE Zero]

\* new_wgt of the weighted rule for a draw other than -1 (degree > 0)
NewWeight_nomax(v, draw) ==
    IF draw = v.belief[1]
    THEN RDivInt(wgts(v, draw), v.degree + 1)
    ELSE RDivInt(wgts(v, draw), v.degree)

NewWeight_undivided(v, draw) ==
    IF draw = v.belief[1]
    THEN RMax(RDivInt(wgts(v, draw), v.degree + 1), v.belief[2])
    ELSE wgts(v, draw)

NewWeight(v, draw) ==
    IF draw = v.belief[1]
    THEN RMax(RDivInt(wgts(v, draw), v.degree + 1), v.belief[2])
    ELSE RDivInt(wgts(v, draw), v.degree)

\* the votes after an update that ran to its last line
ResetVotes_keep(v) == v.votes

ResetVotes(v) == <<>>

Outcome(v, exc, accept, draw, list, probs) ==
    [voter |-> v, exc |-> exc, accept |-> accept, draw |-> draw,
     list |-> list, probs |-> probs]

UpdateSimple(v) ==
    {Outcome([v EXCEPT !.belief = <<SimpleWinner(v), One>>, !.votes = ResetVotes(v)],
             "none", a, -1, <<>>, <<>>) : a \in AcceptDraws(v.paccept)}

UpdateProbability(v) ==
    LET list == BeliefList(v)
        probs == ProbabilityProbs(v)
    IN  IF ~ProbsValid(probs)
        THEN {Outcome(v, "ValueError", TRUE, -1, list, probs)}
        ELSE {Outcome([v EXCEPT !.belief = <<IF d = -1 THEN v.belief[1] ELSE d, One>>,
                                !.votes = ResetVotes(v)],
                      "none", TRUE, d, list, probs) : d \in ChoiceDraws(list, probs)}

UpdateWeighted(v) ==
    LET list == BeliefList(v)
        probs == WeightedProbs(v)
    IN  IF ~ProbsValid(probs)
        THEN {Outcome(v, "ValueError", TRUE, -1, list, probs)}
        ELSE {IF d = -1
              THEN Outcome([v EXCEPT !.votes = ResetVotes(v)], "none", TRUE, d, list, probs)
              ELSE IF v.degree = 0
              THEN Outcome(v, "ZeroDivisionError", TRUE, d, list, probs)
              ELSE Outcome([v EXCEPT !.belief = <<d, NewWeight(v, d)>>,
                                     !.votes = ResetVotes(v)],
                           "none", TRUE, d, list, probs)
              : d \in ChoiceDraws(list, probs)}

\* Voter.update(method): every outcome the draws allow
Update(v, method) ==
    IF method \notin voting_methods
    THEN {Outcome(v, "AssertionError", TRUE, -1, <<>>, <<>>)}
    ELSE IF v.votes = <<>>
    THEN {Outcome(v, "none", TRUE, -1, <<>>, <<>>)}
    ELSE IF method \in {"simple", "single_neighbor"} THEN UpdateSimple(v)
    ELSE IF method = "probability" THEN UpdateProbability(v)
    ELSE UpdateWeighted(v)

-----------------------------------------------------------------------------
(* The graph handed to VoterModel: nodes 0..n-1, edges in networkx order *)

Graphs ==
    { [n |-> 2, edges |-> << <<0, 1>> >>],
      [n |-> 2, edges |-> << >>],
      [n |-> 3, edges |-> << <<0, 1>>, <<1, 2>> >>] }

Clocks == {"discrete", "exponential"}

\* values np.random.exponential(1) is sampled at
TimeSamples == {1, 2}

\* nx.degree(graph, n)
Degree(g, node) ==
    Cardinality({i \in 1..Len(g.edges) : node \in {g.edges[i][1], g.edges[i][2]}})

\* list(graph.edges(node)): the incident edges as (node, neighbour)
RECURSIVE EdgesFrom(_, _, _)
EdgesFrom(g, node, i) ==
    IF i > Len(g.edges) THEN <<>>
    ELSE LET e == g.edges[i]
             rest == EdgesFrom(g, node, i + 1)
         IN  IF e[1] = node THEN <<e>> \o rest
             ELSE IF e[2] = node THEN << <<e[2], e[1]>> >> \o rest
             ELSE rest

EdgesOf(g, node) == EdgesFrom(g, node, 1)

-----------------------------------------------------------------------------
(* VoterModel.initialize *)

init_methods == {"rand_pair", "all_rand", "all_rand_two", "all_rand_n", "all_unique"}

\* Python list indexing degrees[i]
PyIndexOK(i, n) == -n <= i /\ i < n

PyIndex(i, n) == IF i < 0 THEN i + n ELSE i

Max(a, b) == IF a < b THEN b ELSE a

InitOutcome(vs, exc) == [voters |-> vs, exc |-> exc]

\* np.random.choice(order, 2): two draws with replacement
RandPairChoices(n) == (0..(n - 1)) \X (0..(n - 1))

InitRandPair(g) ==
    LET base == [i \in 0..(g.n - 1) |-> Voter(Degree(g, i), <<0, One>>, One)]
    IN  {InitOutcome([[base EXCEPT ![c[1]].belief = <<1, One>>]
                            EXCEPT ![c[2]].belief = <<2, One>>], "none")
         : c \in RandPairChoices(g.n)}

InitAllRand(g) ==
    {InitOutcome([i \in 0..(g.n - 1) |-> Voter(Degree(g, i), <<ids[i], One>>, One)],
                 "none")
     : ids \in [0..(g.n - 1) -> {0, 1, 2}]}

AllRandTwoItems_swapped(n, k) ==
    [j \in 1..(Max(k, 0) + Max(n - k, 0)) |->
        IF j <= Max(k, 0) THEN <<j, 2>> ELSE <<k + (j - Max(k, 0)), 1>>]

\* (i, belief) of the two loops of all_rand_two, in execution order
AllRandTwoItems(n, k) ==
    [j \in 1..(Max(k, 0) + Max(n - k, 0)) |->
        IF j <= Max(k, 0) THEN <<j, 1>> ELSE <<k + (j - Max(k, 0)), 2>>]

RECURSIVE AllRandTwoBuild(_, _, _, _)
AllRandTwoBuild(g, items, j, acc) ==
    IF j > Len(items) THEN InitOutcome(FromSeq(acc), "none")
    ELSE LET i == items[j][1]
         IN  IF ~PyIndexOK(i - 1, g.n) THEN InitOutcome(FromSeq(acc), "IndexError")
             ELSE AllRandTwoBuild(g, items, j + 1,
                     Append(acc, Voter(Degree(g, PyIndex(i - 1, g.n)),
                                       <<items[j][2], One>>, One)))

InitAllRandTwo(g, k) == {AllRandTwoBuild(g, AllRandTwoItems(g.n, k), 1, <<>>)}

InitAllRandN(g) ==
    {InitOutcome([i \in 0..(g.n - 1) |-> Voter(Degree(g, i), <<ids[i], One>>, One)],
                 "none")
     : ids \in [0..(g.n - 1) -> 1..g.n]}

InitAllUnique(g) ==
    {InitOutcome([i \in 0..(g.n - 1) |-> Voter(Degree(g, i), <<i + 1, One>>, One)],
                 "none")}

InitializeOutcomes(g, method, k) ==
    IF method = "rand_pair" THEN InitRandPair(g)
    ELSE IF method = "all_rand" THEN InitAllRand(g)
    ELSE IF method = "all_rand_two" THEN InitAllRandTwo(g, k)
    ELSE IF method = "all_rand_n" THEN InitAllRandN(g)
    ELSE InitAllUnique(g)

-----------------------------------------------------------------------------
(* VoterModel.update: one round *)

Ids(vs) == [i \in 1..PyLen(vs) |-> vs[i - 1].belief[1]]

NoVotes(vs) == [i \in DOMAIN vs |-> <<>>]

\* running state of one call: the voters, the two snapshots, the inbox each
\* updated voter consumed, and the exception that ended the call (if any)
Acc(vs, current, updated, consumed, exc) ==
    [voters |-> vs, current |-> current, updated |-> updated,
     consumed |-> consumed, exc |-> exc]

\* "for e in self.graph.edges: exchange_votes"
RECURSIVE ExchangeAll(_, _, _)
ExchangeAll(vs, edges, i) ==
    IF i > Len(edges) THEN InitOutcome(vs, "none")
    ELSE IF edges[i][1] \notin DOMAIN vs \/ edges[i][2] \notin DOMAIN vs
    THEN InitOutcome(vs, "IndexError")
    ELSE ExchangeAll(exchange_votes(vs, edges[i][1], edges[i][2]), edges, i + 1)

RECURSIVE UpdateLoop_late(_, _, _)
UpdateLoop_late(acc, i, method) ==
    IF i >= PyLen(acc.voters) THEN {acc}
    ELSE UNION {
        IF o.exc # "none"
        THEN {[acc EXCEPT !.current = Append(@, acc.voters[i].belief[1]),
                          !.exc = o.exc]}
        ELSE UpdateLoop_late([acc EXCEPT !.voters[i] = o.voter,
                                         !.current = Append(@, o.voter.belief[1]),
                                         !.updated = Append(@, o.voter.belief[1]),
                                         !.consumed[i] = acc.voters[i].votes],
                             i + 1, method)
        : o \in Update(acc.voters[i], method)}

\* "for v in self._voters: ... v.update(self.voting) ..."
RECURSIVE UpdateLoop(_, _, _)
UpdateLoop(acc, i, method) ==
    IF i >= PyLen(acc.voters) THEN {acc}
    ELSE UNION {
        IF o.exc # "none"
        THEN {[acc EXCEPT !.current = Append(@, acc.voters[i].belief[1]),
                          !.exc = o.exc]}
        ELSE UpdateLoop([acc EXCEPT !.voters[i] = o.voter,
                                    !.current = Append(@, acc.voters[i].belief[1]),
                                    !.updated = Append(@, o.voter.belief[1]),
                                    !.consumed[i] = acc.voters[i].votes],
                        i + 1, method)
        : o \in Update(acc.voters[i], method)}

StepDiscrete(g, vs, method) ==
    LET x == ExchangeAll(vs, g.edges, 1)
    IN  IF x.exc # "none"
        THEN {Acc(x.voters, <<>>, <<>>, NoVotes(vs), x.exc)}
        ELSE UpdateLoop(Acc(x.voters, <<>>, <<>>, NoVotes(vs), "none"), 0, method)

\* push to one neighbour and update it
ConvertOne(acc, node, e, method) ==
    LET neighbor == IF e[1] = node THEN e[2] ELSE e[1]
    IN  IF neighbor \notin DOMAIN acc.voters
        THEN {[acc EXCEPT !.exc = "IndexError"]}
        ELSE LET vs1 == push_vote(acc.voters, node, neighbor)
             IN  {IF o.exc # "none"
                  THEN [acc EXCEPT !.voters = vs1, !.exc = o.exc]
                  ELSE [acc EXCEPT !.voters = [vs1 EXCEPT ![neighbor] = o.voter],
                                   !.updated[neighbor + 1] = o.voter.belief[1],
                                   !.consumed[neighbor] = vs1[neighbor].votes]
                  : o \in Update(vs1[neighbor], method)}

\* "for e in edges: push_vote; update"
RECURSIVE ConvertAll(_, _, _, _, _)
ConvertAll(acc, node, edges, j, method) ==
    IF j > Len(edges) \/ acc.exc # "none" THEN {acc}
    ELSE UNION {ConvertAll(a, node, edges, j + 1, method)
                : a \in ConvertOne(acc, node, edges[j], method)}

\* the exponential branch once the voter `node` woke up
StepWake(g, vs, method, node) ==
    LET acc0 == Acc(vs, Ids(vs), Ids(vs), NoVotes(vs), "none")
        edges == EdgesOf(g, node)
    IN  IF node >= g.n THEN {[acc0 EXCEPT !.exc = "NetworkXError"]}
        ELSE IF method = "single_neighbor"
        THEN IF edges = <<>> THEN {[acc0 EXCEPT !.exc = "ValueError"]}
             ELSE UNION {ConvertOne(acc0, node, edges[j], method) : j \in 1..Len(edges)}
        ELSE ConvertAll(acc0, node, edges, 1, method)

WakeChoices(vs) == DOMAIN vs

-----------------------------------------------------------------------------
(* vm_change.py *)

TrackedLists == { <<0, 1, 2>>, <<1>> }

Min(a, b) == IF a < b THEN a ELSE b

\* flux = sum(i != j for i, j in zip(current_beliefs, updated_beliefs))
Flux(current, updated) ==
    Cardinality({i \in 1..Min(Len(current), Len(updated)) : current[i] # updated[i]})

\* updated_beliefs.count(b)
Count_others(updated, b) == Cardinality({i \in 1..Len(updated) : updated[i] # b})

Count(updated, b) == Cardinality({i \in 1..Len(updated) : updated[i] = b})

\* b_arr
BArr(updated, beliefs) ==
    [j \in 1..Len(beliefs) |-> Rat(Count(updated, beliefs[j]), Len(updated))]

\* conv_arr: the rows whose set of fractions is {0, 1}
ConvArr(b_arr) == {i \in 1..Len(b_arr) : Range(b_arr[i]) = {Zero, One}}

SetMin(S) == CHOOSE x \in S : \A y \in S : x <= y

RECURSIVE SumTimes(_, _)
SumTimes(t_arr, upto) ==
    IF upto = 0 THEN 0 ELSE SumTimes(t_arr, upto - 1) + SumSeq(t_arr[upto])

\* convergence_time(time_arr, belief_arr)
convergence_time_exclusive(t_arr, b_arr) ==
    IF ConvArr(b_arr) = {} THEN SumTimes(t_arr, Len(t_arr))
    ELSE SumTimes(t_arr, SetMin(ConvArr(b_arr)) - 1)

convergence_time(t_arr, b_arr) ==
    IF ConvArr(b_arr) = {} THEN SumTimes(t_arr, Len(t_arr))
    ELSE SumTimes(t_arr, SetMin(ConvArr(b_arr)))

-----------------------------------------------------------------------------
(* The engine as a state machine *)

NoRet == [has |-> FALSE, current |-> <<>>, updated |-> <<>>, times |-> <<>>]

Last(op, pre, consumed, node, method, k) ==
    [op |-> op, pre |-> pre, consumed |-> consumed, node |-> node,
     method |-> method, k |-> k, who |-> -1, accept |-> TRUE, draw |-> -1,
     list |-> <<>>, probs |-> <<>>]

NoLast == Last("none", <<>>, <<>>, -1, "", 0)

Init ==
    /\ graph \in Graphs
    /\ voting \in voting_methods
    /\ clock \in Clocks
    /\ voters = <<>>
    /\ init_method = "None"
    /\ ret = NoRet
    /\ raised = "none"
    /\ flux_arr = <<>>
    /\ belief_arr = <<>>
    /\ time_arr = <<>>
    /\ nsteps = 0
    /\ last = NoLast
    /\ rounds = <<>>

\* the k the caller passes to initialize
KValues(g, method) == IF method = "all_rand_two" THEN 0..g.n ELSE {0}

Initialize ==
    /\ init_method = "None"
    /\ \E method \in init_methods :
       \E k \in KValues(graph, method) :
       \E o \in InitializeOutcomes(graph, method, k) :
          /\ voters' = o.voters
          /\ raised' = o.exc
          /\ init_method' = IF o.exc = "none" THEN method ELSE init_method
          /\ last' = Last("initialize", voters, NoVotes(o.voters), -1, method, k)
    /\ UNCHANGED <<graph, voting, clock, ret, flux_arr, belief_arr, time_arr, nsteps,
                   rounds>>

\* what one call of VoterModel.update can do: the accumulator and the times
StepOutcomes ==
    IF clock = "exponential"
    THEN IF PyLen(voters) = 0
         THEN {[acc |-> Acc(voters, <<>>, <<>>, NoVotes(voters), "ValueError"),
                times |-> <<t>>, node |-> -1] : t \in TimeSamples}
         ELSE UNION {{[acc |-> a, times |-> <<t>>, node |-> node]
                      : a \in StepWake(graph, voters, voting, node)}
                     : <<t, node>> \in TimeSamples \X WakeChoices(voters)}
    ELSE {[acc |-> a, times |-> <<1>>, node |-> -1]
          : a \in StepDiscrete(graph, voters, voting)}

Step ==
    /\ nsteps < MaxSteps
    /\ \E o \in StepOutcomes :
          /\ voters' = o.acc.voters
          /\ raised' = o.acc.exc
          /\ ret' = IF o.acc.exc = "none"
                    THEN [has |-> TRUE, current |-> o.acc.current,
                          updated |-> o.acc.updated, times |-> o.times]
                    ELSE ret
          /\ last' = Last("step", voters, o.acc.consumed, o.node, voting, 0)
    /\ nsteps' = nsteps + 1
    /\ UNCHANGED <<graph, voting, clock, init_method, flux_arr, belief_arr, time_arr,
                   rounds>>

\* track_changes(*ret, flux_arr, belief_arr, time_arr, beliefs), called once
\* with the return value of a step
TrackChanges ==
    /\ ret.has
    /\ Len(flux_arr) < MaxHistory
    /\ \E beliefs \in TrackedLists :
          /\ flux_arr' = Append(flux_arr, Flux(ret.current, ret.updated))
          /\ IF Len(ret.updated) = 0
             THEN /\ raised' = "ZeroDivisionError"
                  /\ UNCHANGED <<belief_arr, time_arr, rounds>>
             ELSE /\ raised' = "none"
                  /\ belief_arr' = Append(belief_arr, BArr(ret.updated, beliefs))
                  /\ time_arr' = Append(time_arr, ret.times)
                  /\ rounds' = Append(rounds, [beliefs |-> beliefs,
                                               updated |-> ret.updated])
          /\ last' = Last("track_changes", voters, NoVotes(voters), -1, "", 0)
    /\ ret' = [ret EXCEPT !.has = FALSE]
    /\ UNCHANGED <<graph, voting, clock, voters, init_method, nsteps>>

Next == Initialize \/ Step \/ TrackChanges

Spec == Init /\ [][Next]_vars

-----------------------------------------------------------------------------
(* The engine over every argument its constructor and initialize accept *)

\* values a caller may pass as voting, clock and nbeliefs
VotingArgs == voting_methods \cup {"majority"}

ClockArgs == Clocks \cup {"continuous"}

NBeliefsArgs == {2, 3}

\* VoterModel.__init__: the assertions on voting and nbeliefs; clock is
\* stored as given
ConstructorAccepts(v, c, nb) == v \in voting_methods /\ nb = 2

ArgInit ==
    /\ graph \in Graphs
    /\ \E v \in VotingArgs : \E c \in ClockArgs : \E nb \in NBeliefsArgs :
          /\ ConstructorAccepts(v, c, nb)
          /\ voting = v
          /\ clock = c
    /\ voters = <<>>
    /\ init_method = "None"
    /\ ret = NoRet
    /\ raised = "none"
    /\ flux_arr = <<>>
    /\ belief_arr = <<>>
    /\ time_arr = <<>>
    /\ nsteps = 0
    /\ last = NoLast
    /\ rounds = <<>>

\* any integer k around the node count
KArgs(g, method) ==
    IF method = "all_rand_two" THEN (0 - g.n - 1)..(g.n + 1) ELSE {0}

ArgInitialize ==
    /\ init_method = "None"
    /\ \E method \in init_methods :
       \E k \in KArgs(graph, method) :
       \E o \in InitializeOutcomes(graph, method, k) :
          /\ voters' = o.voters
          /\ raised' = o.exc
          /\ init_method' = IF o.exc = "none" THEN method ELSE init_method
          /\ last' = Last("initialize", voters, NoVotes(o.voters), -1, method, k)
    /\ UNCHANGED <<graph, voting, clock, ret, flux_arr, belief_arr, time_arr, nsteps,
                   rounds>>

ArgNext == ArgInitialize \/ Step

ArgSpec == ArgInit /\ [][ArgNext]_vars

-----------------------------------------------------------------------------
(* The Voter class on its own: two Voter objects built by the constructor,  *)
(* driven through exchange_votes, push_vote and update                      *)

\* beliefs handed to the constructor: (id, weight)
VoterBeliefs == {<<0, One>>, <<1, One>>, <<2, One>>, <<1, Half>>, <<2, Half>>}

VoterPAccepts == {Zero, One}

\* degrees handed to the constructor
VoterDegrees == 1..2

VoterObjects ==
    {Voter(d, b, p) : <<d, b, p>> \in VoterDegrees \X VoterBeliefs \X VoterPAccepts}

VoterInit ==
    /\ graph = [n |-> 0, edges |-> <<>>]
    /\ voting = "simple"
    /\ clock = "discrete"
    /\ voters \in [0..1 -> VoterObjects]
    /\ init_method = "None"
    /\ ret = NoRet
    /\ raised = "none"
    /\ flux_arr = <<>>
    /\ belief_arr = <<>>
    /\ time_arr = <<>>
    /\ nsteps = 0
    /\ last = NoLast
    /\ rounds = <<>>

VoterFrame ==
    UNCHANGED <<graph, voting, clock, init_method, ret, flux_arr, belief_arr, time_arr,
                rounds>>

VoterExchange ==
    /\ \E a \in DOMAIN voters : \E b \in DOMAIN voters \ {a} :
          /\ Len(voters[a].votes) < MaxVotes
          /\ Len(voters[b].votes) < MaxVotes
          /\ voters' = exchange_votes(voters, a, b)
          /\ last' = Last("exchange_votes", <<>>, <<>>, -1, "", 0)
    /\ raised' = "none"
    /\ UNCHANGED nsteps
    /\ VoterFrame

VoterPush ==
    /\ \E a \in DOMAIN voters : \E b \in DOMAIN voters \ {a} :
          /\ Len(voters[b].votes) < MaxVotes
          /\ voters' = push_vote(voters, a, b)
          /\ last' = Last("push_vote", <<>>, <<>>, -1, "", 0)
    /\ raised' = "none"
    /\ UNCHANGED nsteps
    /\ VoterFrame

VoterUpdate ==
    /\ nsteps < MaxUpdates
    /\ \E a \in DOMAIN voters : \E method \in voting_methods :
       \E o \in Update(voters[a], method) :
          /\ voters' = [voters EXCEPT ![a] = o.voter]
          /\ raised' = o.exc
          /\ last' = [Last("update", voters,
                           [NoVotes(voters) EXCEPT ![a] = voters[a].votes],
                           -1, method, 0)
                        EXCEPT !.who = a, !.accept = o.accept, !.draw = o.draw,
                               !.list = o.list, !.probs = o.probs]
    /\ nsteps' = nsteps + 1
    /\ VoterFrame

VoterNext == VoterExchange \/ VoterPush \/ VoterUpdate

VoterSpec == VoterInit /\ [][VoterNext]_vars

-----------------------------------------------------------------------------
(* Properties *)

\* the beliefs the neighbours of v held in `pre`, one per incident edge
NeighbourBeliefs(g, pre, v) ==
    LET es == EdgesOf(g, v) IN [j \in 1..Len(es) |-> pre[es[j][2]].belief]

DiscreteRoundDone == last.op = "step" /\ clock = "discrete" /\ raised = "none"

TwoNodeFlipCase ==
    /\ graph = [n |-> 2, edges |-> << <<0, 1>> >>]
    /\ voting = "simple"
    /\ DOMAIN last.pre = 0..1
    /\ last.pre[0].belief[1] = 1 /\ last.pre[1].belief[1] = 2
    /\ last.pre[0].paccept = One /\ last.pre[1].paccept = One

\* C1: after a completed round under the discrete clock, the inbox every voter
\* consumed in that round is exactly the beliefs its neighbours held when the
\* round started, one per incident edge; on the 2-node 1-edge graph with
\* beliefs 1 and 2 under the simple rule both voters flip.
C1_SimultaneousExchange ==
    DiscreteRoundDone =>
        /\ \A v \in DOMAIN voters :
              last.consumed[v] = NeighbourBeliefs(graph, last.pre, v)
        /\ TwoNodeFlipCase =>
              voters[0].belief[1] = 2 /\ voters[1].belief[1] = 1

C1_Witness ==
    /\ DiscreteRoundDone
    /\ TwoNodeFlipCase
    /\ last.consumed[0] = << <<2, One>> >>
    /\ last.consumed[1] = << <<1, One>> >>
    /\ voters[0].belief[1] = 2 /\ voters[1].belief[1] = 1

IsolatedWake ==
    /\ last.op = "step"
    /\ clock = "exponential"
    /\ last.node \in DOMAIN last.pre
    /\ Degree(graph, last.node) = 0

\* C2: under the exponential clock a round in which the waking voter has
\* degree 0 raises no error and leaves every voter (belief and inbox) as it was,
\* under every voting rule.
C2_IsolatedWakeIsNoOp ==
    IsolatedWake =>
        /\ raised = "none"
        /\ voters = last.pre
        /\ \A v \in DOMAIN voters : last.consumed[v] = <<>>

\* the voter a stand-alone update() was called on, before the call and after
Before == last.pre[last.who]

After == voters[last.who]

MajorityUpdate ==
    /\ last.op = "update"
    /\ last.method \in {"simple", "single_neighbor"}
    /\ Before.votes # <<>>
    /\ raised = "none"

\* the tally of the claim: the own non-neutral belief once, plus one per
\* non-neutral vote
TallyCount(v, b) ==
    (IF v.belief[1] = b THEN 1 ELSE 0)
    + Cardinality({i \in DOMAIN v.votes : v.votes[i][1] = b})

Tallied(v) ==
    ({v.belief[1]} \cup {v.votes[i][1] : i \in DOMAIN v.votes}) \ {0}

\* C3: an accepted majority update with a non-empty inbox ends at an id of
\* maximal tallied count, and keeps the current id only if its count is
\* strictly larger than every other tallied count (or nothing is tallied); a
\* voter holding 1 whose inbox is one vote for 2 ends at 2.
C3_MajorityTieBreak ==
    (MajorityUpdate /\ last.accept) =>
        LET new == After.belief[1]
            old == Before.belief[1]
            T == Tallied(Before)
        IN  /\ T # {} =>
                 /\ new \in T
                 /\ \A b \in T : TallyCount(Before, b) <= TallyCount(Before, new)
            /\ new = old =>
                 \/ T = {}
                 \/ \A b \in T \ {old} : TallyCount(Before, b) < TallyCount(Before, old)
            /\ (old = 1 /\ Len(Before.votes) = 1 /\ Before.votes[1][1] = 2) => new = 2

C3_Witness ==
    /\ MajorityUpdate
    /\ last.accept
    /\ Before.belief[1] = 1
    /\ Len(Before.votes) = 1
    /\ Before.votes[1][1] = 2
    /\ After.belief[1] = 2

\* C4: a majority update whose acceptance draw failed leaves the belief as it
\* was; a voter of acceptance probability 0 never changes its belief id.
C4_RejectedUpdateKeepsBelief ==
    (MajorityUpdate /\ ~last.accept) => After.belief[1] = Before.belief[1]

WeightedUpdate ==
    /\ last.op = "update"
    /\ last.method = "weighted_prob"
    /\ Before.votes # <<>>

\* the tallied weight of the claim: own strength plus the strengths of the votes
RECURSIVE TallyWeightFrom(_, _, _)
TallyWeightFrom(votes, b, i) ==
    IF i > Len(votes) THEN Zero
    ELSE RAdd(IF votes[i][1] = b THEN votes[i][2] ELSE Zero,
              TallyWeightFrom(votes, b, i + 1))

TallyWeight(v, b) ==
    RAdd(IF v.belief[1] = b THEN v.belief[2] ELSE Zero, TallyWeightFrom(v.votes, b, 1))

\* a neutral voter of degree d holding d votes, all for one belief at strength 1
UnanimousNeutralCase ==
    /\ WeightedUpdate
    /\ Before.belief[1] = 0
    /\ Before.degree > 0
    /\ Len(Before.votes) = Before.degree
    /\ \A i \in DOMAIN Before.votes :
          Before.votes[i][1] = Before.votes[1][1] /\ Before.votes[i][2] = One
    /\ Before.votes[1][1] # 0

\* C5 as claimed: the weighted rule draws each tallied id with probability
\* weight / degree, so the unanimous neutral voter adopts the belief for sure.
C5_DividedByDegree ==
    /\ WeightedUpdate =>
          \A i \in 1..(Len(last.list) - 1) :
             last.probs[i] = RDivInt(TallyWeight(Before, last.list[i]), Before.degree)
    /\ UnanimousNeutralCase => After.belief[1] = Before.votes[1][1]

\* C5 as the code has it: the weighted rule draws each tallied id with
\* probability weight / (degree + 1), the residual (clamped at 0) going to
\* "no change"; the unanimous neutral voter of degree d draws the belief with
\* probability d / (d + 1) and "no change" with 1 / (d + 1), ending either at
\* the belief with strength 1 or unchanged.
C5_DividedByDegreePlusOne ==
    /\ WeightedUpdate =>
          /\ Len(last.probs) = Len(last.list)
          /\ last.list[Len(last.list)] = -1
          /\ Range(SubSeq(last.list, 1, Len(last.list) - 1)) = Tallied(Before)
          /\ \A i \in 1..(Len(last.list) - 1) :
                last.probs[i] =
                   RDivInt(TallyWeight(Before, last.list[i]), Before.degree + 1)
    /\ UnanimousNeutralCase =>
          /\ last.list = <<Before.votes[1][1], -1>>
          /\ last.probs = <<Rat(Before.degree, Before.degree + 1),
                            Rat(1, Before.degree + 1)>>
          /\ raised = "none"
          /\ \/ After.belief = <<Before.votes[1][1], One>>
             \/ After.belief = Before.belief

C5_Witness ==
    /\ UnanimousNeutralCase
    /\ Before.degree = 2
    /\ last.draw = -1
    /\ After.belief = Before.belief
    /\ After.votes = <<>>

RoundRan == last.op = "step" /\ DOMAIN last.pre = DOMAIN voters

\* C6: over a round, a voter whose belief id is the same after as before has a
\* strength at least as large as before (every voter updates at most once in
\* a round, so the round's change is its update's change).
C6_StrengthNeverDrops ==
    RoundRan =>
        \A v \in DOMAIN voters :
           voters[v].belief[1] = last.pre[v].belief[1] =>
              RLeq(last.pre[v].belief[2], voters[v].belief[2])

\* a voter confirmed in its belief by a weaker vote: weight / (degree + 1) is
\* below its strength, which it keeps
C6_Witness ==
    /\ RoundRan
    /\ voting = "weighted_prob"
    /\ raised = "none"
    /\ \E v \in DOMAIN voters :
          /\ last.consumed[v] # <<>>
          /\ last.pre[v].belief[1] # 0
          /\ voters[v].belief = last.pre[v].belief
          /\ \E i \in DOMAIN last.consumed[v] :
                /\ last.consumed[v][i][1] = last.pre[v].belief[1]
                /\ RLess(last.consumed[v][i][2], One)
          /\ RLess(RDivInt(TallyWeight([last.pre[v] EXCEPT !.votes = last.consumed[v]],
                                       last.pre[v].belief[1]),
                           last.pre[v].degree + 1),
                   last.pre[v].belief[2])

\* C7: after initialize() and after every completed round, every inbox is empty.
C7_InboxEmptyBetweenRounds ==
    (last.op = "initialize" \/ (last.op = "step" /\ raised = "none")) =>
        \A v \in DOMAIN voters : voters[v].votes = <<>>

C7_Witness ==
    /\ last.op = "step"
    /\ raised = "none"
    /\ \E v \in DOMAIN voters : Len(last.consumed[v]) = 2
    /\ \A v \in DOMAIN voters : voters[v].votes = <<>>

\* the belief ids observed in the snapshot of recorded round i
Observed(i) == Range(rounds[i].updated)

Recorded == 1..Len(belief_arr)

Elapsed(i) == SumSeq(time_arr[i])

RECURSIVE ElapsedUpTo(_)
ElapsedUpTo(i) == IF i = 0 THEN 0 ELSE ElapsedUpTo(i - 1) + Elapsed(i)

First(S) == CHOOSE i \in S : \A j \in S : i <= j

HistoryAligned == Len(time_arr) = Len(belief_arr) /\ Len(rounds) = Len(belief_arr)

\* C8 as claimed: convergence_time() returns the elapsed time up to and
\* including the first round whose observed belief-id set is {0, 1}; on a
\* history whose every round observes {0, 1} that is the first round's time.
C8_FirstRoundObservingZeroOne ==
    HistoryAligned =>
        LET hit == {i \in Recorded : Observed(i) = {0, 1}}
        IN  hit # {} =>
               convergence_time(time_arr, belief_arr) = ElapsedUpTo(First(hit))

\* C8 as the code has it: convergence_time() returns the elapsed time up to and
\* including the first round whose recorded fractions, as a set, are {0, 1}
\* (one tracked belief held by all voters, another by none); on a history
\* whose every round is such, that is the first round's time.
C8_FirstRoundOfFractionsZeroOne ==
    HistoryAligned =>
        LET hit == {i \in Recorded :
                       /\ \E j \in DOMAIN belief_arr[i] : belief_arr[i][j] = One
                       /\ \E j \in DOMAIN belief_arr[i] : belief_arr[i][j] = Zero
                       /\ \A j \in DOMAIN belief_arr[i] : belief_arr[i][j] \in {Zero, One}}
        IN  /\ hit # {} =>
                 convergence_time(time_arr, belief_arr) = ElapsedUpTo(First(hit))
            /\ (hit = Recorded /\ Recorded # {}) =>
                 convergence_time(time_arr, belief_arr) = Elapsed(1)

C8_Witness ==
    /\ HistoryAligned
    /\ Len(belief_arr) = 2
    /\ \A i \in Recorded : Range(belief_arr[i]) = {Zero, One}
    /\ convergence_time(time_arr, belief_arr) = Elapsed(1)
    /\ Elapsed(1) < Elapsed(1) + Elapsed(2)

\* C9: convergence_time() returns the elapsed time up to and including the
\* first recorded round in which the whole population holds one single belief,
\* and the sum of all recorded times when there is no such round.
C9_FirstUnanimousRound ==
    HistoryAligned =>
        LET hit == {i \in Recorded : Cardinality(Observed(i)) = 1}
        IN  convergence_time(time_arr, belief_arr) =
               IF hit = {} THEN ElapsedUpTo(Len(time_arr)) ELSE ElapsedUpTo(First(hit))

\* voters of recorded round i whose belief id is in the tracked list
TrackedVoters(i) ==
    {j \in DOMAIN rounds[i].updated : rounds[i].updated[j] \in Range(rounds[i].beliefs)}

\* C10 as claimed: the fractions of every recorded distribution sum to 1.
C10_FractionsSumToOne ==
    \A i \in Recorded : RSum(belief_arr[i]) = One

\* C10 as the code has it: for a duplicate-free tracked list, the fractions of
\* a recorded distribution sum to the share of voters whose belief id is in
\* the tracked list; the sum is 1 exactly when the list holds every belief id
\* of the post-round snapshot.
C10_FractionsSumToTrackedShare ==
    HistoryAligned =>
        \A i \in Recorded :
           /\ RSum(belief_arr[i]) =
                 Rat(Cardinality(TrackedVoters(i)), Len(rounds[i].updated))
           /\ RSum(belief_arr[i]) = One <=> Observed(i) \subseteq Range(rounds[i].beliefs)

C10_Witness ==
    /\ HistoryAligned
    /\ \E i \in Recorded :
          /\ Cardinality(Observed(i)) = 3
          /\ Observed(i) \subseteq Range(rounds[i].beliefs)
          /\ RSum(belief_arr[i]) = One
    /\ \E i \in Recorded :
          /\ ~(Observed(i) \subseteq Range(rounds[i].beliefs))
          /\ RLess(RSum(belief_arr[i]), One)

Extends(new, old) == Len(new) = Len(old) + 1 /\ SubSeq(new, 1, Len(old)) = old

\* C11: every track_changes call appends exactly one entry to each of the
\* flux, distribution and time lists and leaves the earlier entries as they
\* were, so the three lists always have the same length (the number of calls).
C11_AppendsOneToEach ==
    [][(flux_arr' # flux_arr \/ belief_arr' # belief_arr \/ time_arr' # time_arr) =>
          /\ Extends(flux_arr', flux_arr)
          /\ Extends(belief_arr', belief_arr)
          /\ Extends(time_arr', time_arr)]_vars

\* initialize(method) has just returned
Initialized(method) ==
    last.op = "initialize" /\ last.method = method /\ raised = "none"

Holders(b) == {i \in DOMAIN voters : voters[i].belief[1] = b}

\* C12: after initialize('rand_pair') on a graph of at least two nodes exactly
\* one voter holds belief 1, exactly one other voter holds belief 2, every
\* remaining voter is neutral, and all strengths are 1.
C12_RandPairSeedsTwoVoters ==
    (Initialized("rand_pair") /\ graph.n >= 2) =>
        /\ Cardinality(Holders(1)) = 1
        /\ Cardinality(Holders(2)) = 1
        /\ Cardinality(Holders(0)) = graph.n - 2
        /\ \A i \in DOMAIN voters : voters[i].belief[2] = One

\* C13: after initialize('all_rand_two', k) with 0 <= k <= N the first k
\* voters in node order hold belief 1 and the other N - k hold belief 2, all
\* at strength 1; k = 0 leaves nobody at belief 1 and k = N nobody at belief 2.
C13_FirstKThenRest ==
    (Initialized("all_rand_two") /\ 0 <= last.k /\ last.k <= graph.n) =>
        /\ DOMAIN voters = 0..(graph.n - 1)
        /\ \A i \in DOMAIN voters :
              voters[i].belief = IF i < last.k THEN <<1, One>> ELSE <<2, One>>
        /\ (last.k = 0 => Holders(1) = {} /\ Holders(2) = DOMAIN voters)
        /\ (last.k = graph.n => Holders(1) = DOMAIN voters /\ Holders(2) = {})

C13_Witness ==
    /\ Initialized("all_rand_two")
    /\ graph.n = 3
    /\ last.k = 1
    /\ Holders(1) = {0}
    /\ Holders(2) = {1, 2}

\* C14: once an initialize(strategy, k) has succeeded, for any strategy and
\* any integer k, there is exactly one voter per graph node, each with the
\* degree of its node, and no later step changes the number of voters or a
\* voter's degree.
C14_OneVoterPerNode ==
    init_method # "None" =>
        /\ PyLen(voters) = graph.n
        /\ \A i \in DOMAIN voters : voters[i].degree = Degree(graph, i)

\* C15: an unknown clock mode is rejected when the engine is constructed, so
\* no engine, once constructed and initialized, ever executes a step under a
\* clock other than 'discrete' or 'exponential'.
C15_UnknownClockNeverSteps ==
    (init_method # "None" /\ last.op = "step" /\ raised = "none") => clock \in Clocks

\* a call of update() has just returned its snapshots
StepReturned == last.op = "step" /\ raised = "none"

Changed == {i \in DOMAIN voters : voters[i].belief[1] # last.pre[i].belief[1]}

\* C16: under both clocks and every voting rule the snapshots step() returns
\* are faithful: entry i of the first is voter i's belief id just before the
\* step, entry i of the second is its belief id just after, and so the flux
\* computed from them is the number of voters whose belief id changed.
C16_SnapshotsFaithful ==
    StepReturned =>
        /\ ret.has
        /\ DOMAIN last.pre = DOMAIN voters
        /\ Len(ret.current) = PyLen(voters)
        /\ Len(ret.updated) = PyLen(voters)
        /\ \A i \in DOMAIN voters :
              /\ ret.current[i + 1] = last.pre[i].belief[1]
              /\ ret.updated[i + 1] = voters[i].belief[1]
        /\ Flux(ret.current, ret.updated) = Cardinality(Changed)

C16_Witness ==
    /\ StepReturned
    /\ clock = "discrete"
    /\ PyLen(voters) = 3
    /\ Cardinality(Changed) = 2
    /\ Flux(ret.current, ret.updated) = 2

\* the voter `last.node` woke up in the update() just executed
WakeRan == last.op = "step" /\ clock = "exponential" /\ last.node \in DOMAIN last.pre

NoSelfLoops == \A i \in 1..Len(graph.edges) : graph.edges[i][1] # graph.edges[i][2]

NeighboursOf(node) ==
    {i \in DOMAIN voters :
        \E j \in 1..Len(graph.edges) :
            {graph.edges[j][1], graph.edges[j][2]} = {node, i}}

\* C17: under the exponential clock on a graph without self-loops one step
\* leaves the waking voter's belief and inbox as they were, leaves every
\* voter that is not its neighbour unchanged, and under 'single_neighbor'
\* changes the belief of at most one voter, so that the flux is at most 1.
C17_OnlyNeighboursChange ==
    (WakeRan /\ NoSelfLoops) =>
        /\ DOMAIN voters = DOMAIN last.pre
        /\ voters[last.node].belief = last.pre[last.node].belief
        /\ voters[last.node].votes = last.pre[last.node].votes
        /\ \A i \in DOMAIN voters :
              i \notin NeighboursOf(last.node) => voters[i] = last.pre[i]
        /\ voting = "single_neighbor" =>
              /\ Cardinality({i \in DOMAIN voters :
                                voters[i].belief # last.pre[i].belief}) <= 1
              /\ (raised = "none" => Flux(ret.current, ret.updated) <= 1)

C17_Witness ==
    /\ WakeRan
    /\ raised = "none"
    /\ voting = "single_neighbor"
    /\ graph.n = 3
    /\ last.node = 1
    /\ Flux(ret.current, ret.updated) = 1
    /\ voters[0].belief # last.pre[0].belief
    /\ voters[2] = last.pre[2]

\* C18: in every state reached from initialize by steps, under every voting
\* rule and both clocks, every voter's strength lies in [0, 1]; the
\* 'weighted_prob' assignments never produce a strength above 1.
C18_StrengthWithinUnitInterval ==
    \A i \in DOMAIN voters :
        RLeq(Zero, voters[i].belief[2]) /\ RLeq(voters[i].belief[2], One)

\* a voter of degree 2 adopted the belief both its neighbours sent at full
\* strength: weight 2 over degree 2, the largest strength the rule assigns
C18_Witness ==
    /\ last.op = "step"
    /\ voting = "weighted_prob"
    /\ clock = "discrete"
    /\ PyLen(last.pre) = 3
    /\ Len(last.consumed[1]) = 2
    /\ voters[1].belief[1] # last.pre[1].belief[1]
    /\ voters[1].belief[2] = One
    /\ \E i \in DOMAIN voters : RLess(voters[i].belief[2], One)

\* a call of update() has just run (to its end or to an exception)
StepRan == last.op = "step"

IdsOf(vs) == {vs[i].belief[1] : i \in DOMAIN vs}

\* belief ids of the non-neutral votes voter i consumed in the step
InboxIds(i) ==
    {last.consumed[i][j][1] : j \in {m \in 1..Len(last.consumed[i]) :
                                        last.consumed[i][m][1] # 0}}

\* C19: no update invents a belief or returns a voter to neutral: after a
\* step each voter's belief id is its previous id or the id of a non-neutral
\* vote in its inbox, so the set of ids present gains no id, a non-neutral
\* voter does not become neutral, and a consensus on a non-neutral id stays.
C19_NoBeliefInvented ==
    StepRan =>
        /\ DOMAIN voters = DOMAIN last.pre
        /\ \A i \in DOMAIN voters :
              /\ voters[i].belief[1] \in {last.pre[i].belief[1]} \cup InboxIds(i)
              /\ last.pre[i].belief[1] # 0 => voters[i].belief[1] # 0
        /\ IdsOf(voters) \subseteq IdsOf(last.pre)
        /\ \A b \in IdsOf(last.pre) \ {0} :
              IdsOf(last.pre) = {b} => IdsOf(voters) = {b}

\* one voter adopted a belief from its inbox while another one, holding a
\* belief, was sent a neutral vote
C19_Witness ==
    /\ StepRan
    /\ raised = "none"
    /\ \E i \in DOMAIN voters :
          /\ voters[i].belief[1] # last.pre[i].belief[1]
          /\ voters[i].belief[1] \in InboxIds(i)
    /\ \E i \in DOMAIN voters :
          /\ last.pre[i].belief[1] # 0
          /\ \E j \in 1..Len(last.consumed[i]) : last.consumed[i][j][1] = 0

\* voter i as it was when its update was called in the step: its belief
\* before the step and the inbox it was sent (consumed by an update that
\* returned, still in place after one that raised)
AtUpdate(i) == [last.pre[i] EXCEPT !.votes = last.consumed[i] \o voters[i].votes]

RECURSIVE NonNeutralWeight(_, _)
NonNeutralWeight(votes, i) ==
    IF i > Len(votes) THEN Zero
    ELSE RAdd(IF votes[i][1] # 0 THEN votes[i][2] ELSE Zero,
              NonNeutralWeight(votes, i + 1))

\* everything tallied, the own belief included: counts under 'probability',
\* weights under 'weighted_prob'
TalliedTotal(v) ==
    IF voting = "probability"
    THEN Rat((IF v.belief[1] # 0 THEN 1 ELSE 0)
             + Cardinality({j \in 1..Len(v.votes) : v.votes[j][1] # 0}), 1)
    ELSE RAdd(IF v.belief[1] # 0 THEN v.belief[2] ELSE Zero,
              NonNeutralWeight(v.votes, 1))

Residual(v) == RSub(One, RDivInt(TalliedTotal(v), v.degree + 1))

Clamped(x) == IF RLeq(Zero, x) THEN x ELSE Zero

DrawingStep ==
    /\ last.op = "step"
    /\ voting \in {"probability", "weighted_prob"}
    /\ PyLen(last.pre) > 0

\* C20: a voter's inbox at its update holds at most degree-many votes, so
\* the tallied total (own belief included) is at most degree + 1; the
\* residual 'no change' probability is never negative, clamping it changes
\* nothing, and the distribution drawn from sums to exactly 1 (the draw is
\* never rejected).
C20_ResidualNeverNegative ==
    DrawingStep =>
        /\ raised # "ValueError"
        /\ \A i \in DOMAIN last.pre :
              LET v == AtUpdate(i)
              IN  /\ Len(v.votes) <= v.degree
                  /\ RLeq(TalliedTotal(v), Rat(v.degree + 1, 1))
                  /\ RLeq(Zero, Residual(v))
                  /\ Clamped(Residual(v)) = Residual(v)
                  /\ RAdd(RDivInt(TalliedTotal(v), v.degree + 1),
                          Clamped(Residual(v))) = One

====
